---------------------------- MODULE Spec2Model ----------------------------
(***************************************************************************)
(* Model of mesonbuild/compilers/mixins/islinker.py: LinkerEnvVarsMixin    *)
(* (LDFLAGS read from the process environment) and                         *)
(* BasicLinkerIsCompilerMixin (the baseline table of linker queries).      *)
(*                                                                         *)
(* Python values are tagged records: a str is [kind |-> "str", val |->     *)
(* <<characters>>], a list is [kind |-> "list", val |-> <<items>>], None   *)
(* is [kind |-> "none"], a raised exception is [kind |-> "raise", cls,     *)
(* msg].  A str is a sequence of one-character strings so that the shell   *)
(* lexer can walk it character by character.                               *)
(***************************************************************************)
EXTENDS Integers, Sequences, FiniteSets, TLC

VARIABLES
    environ,    \* os.environ: a function from variable names to str values
    platform,   \* platform.system() of the host the build runs on
    self,       \* the capability object: [id, exelist (a heap address), overrides]
    heap,       \* the list objects alive: heap address -> sequence of items
    held,       \* addresses of the lists callers got back from get_linker_exelist
    result      \* the last call: [query, args, outcome]

vars == <<environ, platform, self, heap, held, result>>

---------------------------------------------------------------------------
(* Bounds of the model *)

MaxLen == 4         \* longest enumerated LDFLAGS value, in characters
MaxCopies == 2      \* lists returned by get_linker_exelist alive at once
MaxListLen == 3     \* longest list a caller grows a returned list to

---------------------------------------------------------------------------
(* Python values *)

None == [kind |-> "none"]
Str(s) == [kind |-> "str", val |-> s]
List(l) == [kind |-> "list", val |-> l]
Bool(b) == [kind |-> "bool", val |-> b]
Tuple(t) == [kind |-> "tuple", val |-> t]
Raise(cls, msg) == [kind |-> "raise", cls |-> cls, msg |-> msg]

\* Python truth value of `flags` in `if not flags`: None and '' are false
Truthy(v) == v.kind = "str" /\ v.val # <<>>

\* template.format(arg): every '{}' field of the template is replaced by arg.
\* A message is a sequence of words.
Format(template, arg) ==
    [i \in DOMAIN template |-> IF template[i] = "{}" THEN arg ELSE template[i]]

---------------------------------------------------------------------------
(* shlex.split(s): shlex.shlex(s, posix=True), whitespace_split = True,    *)
(* commenters = ''                                                         *)

whitespace == {" ", "\t", "\r", "\n"}
wordchars == {"a", "b", "h", "i", "l", "o", "p", "r", "t", "L", "W"}
quotes == {"'", "\""}
escape == {"\\"}
escapedquotes == {"\""}
NoneState == "None"

\* the end of read_token: `result = self.token`, and in posix mode an unquoted
\* empty result is None (end of input)
emit(token, quoted, pos, state) ==
    [kind |-> IF ~quoted /\ token = <<>> THEN "eof" ELSE "token",
     token |-> token, pos |-> pos, state |-> state]

\* shlex.read_token: one pass of its `while True` loop per character read.
\* pos is the stream position, state is self.state, token is self.token;
\* quoted and escapedstate are the locals of the call.
RECURSIVE read_token(_, _, _, _, _, _)
read_token(s, pos, state, token, quoted, escapedstate) ==
    LET eof == pos > Len(s)
        nextchar == IF eof THEN "" ELSE s[pos]
        next == pos + 1
    IN  IF state = NoneState THEN
            emit(<<>>, quoted, pos, state)
        ELSE IF state = " " THEN
            IF eof THEN
                emit(token, quoted, pos, NoneState)
            ELSE IF nextchar \in whitespace THEN
                IF token # <<>> \/ quoted
                THEN emit(token, quoted, next, state)
                ELSE read_token(s, next, state, token, quoted, escapedstate)
            ELSE IF nextchar \in escape THEN
                read_token(s, next, nextchar, token, quoted, "a")
            ELSE IF nextchar \in wordchars THEN
                read_token(s, next, "a", <<nextchar>>, quoted, escapedstate)
            ELSE IF nextchar \in quotes THEN
                read_token(s, next, nextchar, token, quoted, escapedstate)
            ELSE
                read_token(s, next, "a", <<nextchar>>, quoted, escapedstate)
        ELSE IF state \in quotes THEN
            IF eof THEN
                [kind |-> "raise", cls |-> "ValueError",
                 msg |-> <<"No", "closing", "quotation">>]
            ELSE IF nextchar = state THEN
                read_token(s, next, "a", token, TRUE, escapedstate)
            ELSE IF nextchar \in escape /\ state \in escapedquotes THEN
                read_token(s, next, nextchar, token, TRUE, state)
            ELSE
                read_token(s, next, state, Append(token, nextchar), TRUE, escapedstate)
        ELSE IF state \in escape THEN
            IF eof THEN
                [kind |-> "raise", cls |-> "ValueError",
                 msg |-> <<"No", "escaped", "character">>]
            ELSE
                LET kept == IF escapedstate \in quotes /\ nextchar # state
                               /\ nextchar # escapedstate
                            THEN Append(token, state) ELSE token
                IN  read_token(s, next, escapedstate, Append(kept, nextchar),
                               quoted, escapedstate)
        ELSE \* state = 'a'
            IF eof THEN
                emit(token, quoted, pos, NoneState)
            ELSE IF nextchar \in whitespace THEN
                IF token # <<>> \/ quoted
                THEN emit(token, quoted, next, " ")
                ELSE read_token(s, next, " ", token, quoted, escapedstate)
            ELSE IF nextchar \in quotes THEN
                read_token(s, next, nextchar, token, quoted, escapedstate)
            ELSE IF nextchar \in escape THEN
                read_token(s, next, nextchar, token, quoted, "a")
            ELSE
                read_token(s, next, state, Append(token, nextchar), quoted, escapedstate)

\* list(lex): get_token() until it returns lex.eof; an exception of read_token
\* propagates and the tokens read so far are lost
RECURSIVE shlex_tokens(_, _, _, _)
shlex_tokens(s, pos, state, acc) ==
    LET t == read_token(s, pos, state, <<>>, FALSE, " ")
    IN  IF t.kind = "raise" THEN t
        ELSE IF t.kind = "eof" THEN List(acc)
        ELSE shlex_tokens(s, t.pos, t.state, Append(acc, Str(t.token)))

shlex_split(s) == shlex_tokens(s, 1, " ", <<>>)

---------------------------------------------------------------------------
(* LinkerEnvVarsMixin *)

\* os.environ.get(key): the value, or None when the variable is unset
os_environ_get(env, key) == IF key \in DOMAIN env THEN env[key] ELSE None

\* s.split(): the runs of non-whitespace characters, quotes left as they are
RECURSIVE str_split(_, _, _, _)
str_split(s, pos, cur, acc) ==
    IF pos > Len(s) THEN List(IF cur = <<>> THEN acc ELSE Append(acc, Str(cur)))
    ELSE IF s[pos] \in whitespace
         THEN str_split(s, pos + 1, <<>>, IF cur = <<>> THEN acc ELSE Append(acc, Str(cur)))
         ELSE str_split(s, pos + 1, Append(cur, s[pos]), acc)

\* faulty variant: os.environ['LDFLAGS'] without the guard for an unset variable
get_linker_args_from_envvars_keyerror(env) ==
    IF "LDFLAGS" \notin DOMAIN env THEN Raise("KeyError", <<"LDFLAGS">>)
    ELSE shlex_split(env["LDFLAGS"].val)

\* faulty variant: flags.split() in place of shlex.split(flags)
get_linker_args_from_envvars_str_split(env) ==
    LET flags == os_environ_get(env, "LDFLAGS")
    IN  IF ~Truthy(flags) THEN List(<<>>) ELSE str_split(flags.val, 1, <<>>, <<>>)

get_linker_args_from_envvars(env) ==
    LET flags == os_environ_get(env, "LDFLAGS")
    IN  IF ~Truthy(flags) THEN List(<<>>) ELSE shlex_split(flags.val)

---------------------------------------------------------------------------
(* mesonlib, as far as this module uses it *)

Platforms == {"linux", "windows"}

\* mesonlib.is_windows(): whether the host platform is Windows
is_windows(plat) == plat = "windows"

---------------------------------------------------------------------------
(* BasicLinkerIsCompilerMixin: one operator per method, returning what the *)
(* method returns or raises.  obj is `self`.                               *)

sanitizer_link_args(obj, value) == List(<<>>)

get_lto_link_args(obj) == List(<<>>)

\* faulty variant: the function object instead of its result, which is always true
can_linker_accept_rsp_always(obj, plat) == Bool(TRUE)

can_linker_accept_rsp(obj, plat) == Bool(is_windows(plat))

\* list.copy(): a new list object holding the items of hp[ref]
list_copy(hp, ref) ==
    LET new == CHOOSE a \in 1..(Cardinality(DOMAIN hp) + 1) : a \notin DOMAIN hp
    IN  [ref |-> new, heap |-> hp @@ (new :> hp[ref])]

\* faulty variant: `return self.exelist`, the list itself and no copy
get_linker_exelist_alias(obj, hp) == [ref |-> obj.exelist, heap |-> hp]

\* returns the address of the returned list and the heap after the call
get_linker_exelist(obj, hp) == list_copy(hp, obj.exelist)

get_linker_output_args(obj, output) == List(<<>>)

get_linker_always_args(obj) == List(<<>>)

get_linker_lib_prefix(obj) == Str(<<>>)

get_option_link_args(obj, options) == List(<<>>)

\* faulty variant: no arguments counted as trivially supported
has_multi_link_args_empty(obj, args, env) == Tuple(<<args = <<>>, FALSE>>)

has_multi_link_args(obj, args, env) == Tuple(<<FALSE, FALSE>>)

get_link_debugfile_args(obj, targetfile) == List(<<>>)

get_std_shared_lib_link_args(obj) == List(<<>>)

\* what an adapter's own definition of a query returns
adapter_args(q) == List(<<"-adapter", q>>)

\* self.get_std_shared_lib_link_args(): the attribute lookup finds the
\* adapter's definition before the mixin's
self_get_std_shared_lib_link_args(obj) ==
    IF "get_std_shared_lib_link_args" \in obj.overrides
    THEN adapter_args("get_std_shared_lib_link_args")
    ELSE get_std_shared_lib_link_args(obj)

\* faulty variant: an empty list of its own instead of the call through self
get_std_shared_module_args_empty(obj, options) == List(<<>>)

get_std_shared_module_args(obj, options) == self_get_std_shared_lib_link_args(obj)

get_link_whole_for(obj, args) ==
    Raise("EnvironmentException",
          Format(<<"Linker", "{}", "does", "not", "support", "link_whole">>, obj.id))

get_allow_undefined_args(obj) ==
    Raise("EnvironmentException",
          Format(<<"Linker", "{}", "does", "not", "support", "allow", "undefined">>, obj.id))

get_pie_link_args(obj) ==
    LET m == <<"Linker", "{}", "does", "not", "support", "position-independent",
               "executable">>
    IN  Raise("EnvironmentException", Format(m, obj.id))

get_undefined_link_args(obj) == List(<<>>)

get_coverage_link_args(obj) ==
    LET m == Format(<<"Linker", "{}", "doesn't", "implement", "coverage", "data",
                      "generation.">>, obj.id)
    IN  Raise("EnvironmentException", m)

no_undefined_link_args(obj) == List(<<>>)

bitcode_args(obj) ==
    Raise("MesonException", <<"This", "linker", "doesn't", "support", "bitcode", "bundles">>)

get_soname_args(obj, for_machine, prefix, shlib_name, suffix, soversion, darwin_versions, is_shared_module) ==
    Raise("MesonException", <<"This", "linker", "doesn't", "support", "soname", "args">>)

\* faulty variant: an -rpath argument as soon as there is a path to put in it
build_rpath_args_rpath(obj, env, build_dir, from_dir, rpath_paths, build_rpath, install_rpath) ==
    IF rpath_paths = "" /\ build_rpath = "" THEN List(<<>>)
    ELSE List(<<"-rpath", rpath_paths, build_rpath>>)

build_rpath_args(obj, env, build_dir, from_dir, rpath_paths, build_rpath, install_rpath) ==
    List(<<>>)

---------------------------------------------------------------------------
(* The queries and the inputs they are called with *)

Queries ==
    {"get_linker_args_from_envvars", "sanitizer_link_args", "get_lto_link_args",
     "can_linker_accept_rsp", "get_linker_exelist", "get_linker_output_args",
     "get_linker_always_args", "get_linker_lib_prefix", "get_option_link_args",
     "has_multi_link_args", "get_link_debugfile_args", "get_std_shared_lib_link_args",
     "get_std_shared_module_args", "get_link_whole_for", "get_allow_undefined_args",
     "get_pie_link_args", "get_undefined_link_args", "get_coverage_link_args",
     "no_undefined_link_args", "bitcode_args", "get_soname_args", "build_rpath_args"}

\* the queries a toolchain adapter of the model may define itself
Overridable == {"get_std_shared_lib_link_args", "get_link_whole_for"}

ArgLists == {<<>>, <<"-O1", "--as-needed">>}
OptionDicts == {<<>>, [b_lto |-> "true", b_pie |-> "false"]}
SonameInputs ==
    {<<m, "lib", "foo", "so", "1", <<"1.0", "1.0">>, sm>> :
        m \in {"BUILD", "HOST"}, sm \in BOOLEAN}
RpathInputs ==
    {<<"env", "build", "src", p, b, "">> : p \in {"", "/opt/lib"}, b \in {"", "$ORIGIN"}}

Inputs(q) ==
    CASE q = "sanitizer_link_args" -> {<<v>> : v \in {"none", "address"}}
      [] q = "get_linker_output_args" -> {<<o>> : o \in {"a.out", "libfoo.so"}}
      [] q \in {"get_option_link_args", "get_std_shared_module_args"} ->
            {<<o>> : o \in OptionDicts}
      [] q = "has_multi_link_args" -> {<<a, "env">> : a \in ArgLists}
      [] q = "get_link_debugfile_args" -> {<<f>> : f \in {"a.pdb", "b.pdb"}}
      [] q = "get_link_whole_for" -> {<<a>> : a \in ArgLists}
      [] q = "get_soname_args" -> SonameInputs
      [] q = "build_rpath_args" -> RpathInputs
      [] OTHER -> {<<>>}

\* obj.<q>(...): a query the adapter defines itself hides the mixin's
MethodCall(obj, q, baseline) ==
    IF q \in obj.overrides THEN adapter_args(q) ELSE baseline

\* the value query q returns on obj, or the exception it raises, when the
\* environment is env, the host platform plat and the heap hp
EvalIn(env, plat, hp, obj, q, a) ==
    MethodCall(obj, q,
        CASE q = "get_linker_args_from_envvars" -> get_linker_args_from_envvars(env)
          [] q = "sanitizer_link_args" -> sanitizer_link_args(obj, a[1])
          [] q = "get_lto_link_args" -> get_lto_link_args(obj)
          [] q = "can_linker_accept_rsp" -> can_linker_accept_rsp(obj, plat)
          [] q = "get_linker_exelist" ->
                LET r == get_linker_exelist(obj, hp) IN List(r.heap[r.ref])
          [] q = "get_linker_output_args" -> get_linker_output_args(obj, a[1])
          [] q = "get_linker_always_args" -> get_linker_always_args(obj)
          [] q = "get_linker_lib_prefix" -> get_linker_lib_prefix(obj)
          [] q = "get_option_link_args" -> get_option_link_args(obj, a[1])
          [] q = "has_multi_link_args" -> has_multi_link_args(obj, a[1], a[2])
          [] q = "get_link_debugfile_args" -> get_link_debugfile_args(obj, a[1])
          [] q = "get_std_shared_lib_link_args" -> get_std_shared_lib_link_args(obj)
          [] q = "get_std_shared_module_args" -> get_std_shared_module_args(obj, a[1])
          [] q = "get_link_whole_for" -> get_link_whole_for(obj, a[1])
          [] q = "get_allow_undefined_args" -> get_allow_undefined_args(obj)
          [] q = "get_pie_link_args" -> get_pie_link_args(obj)
          [] q = "get_undefined_link_args" -> get_undefined_link_args(obj)
          [] q = "get_coverage_link_args" -> get_coverage_link_args(obj)
          [] q = "no_undefined_link_args" -> no_undefined_link_args(obj)
          [] q = "bitcode_args" -> bitcode_args(obj)
          [] q = "get_soname_args" ->
                get_soname_args(obj, a[1], a[2], a[3], a[4], a[5], a[6], a[7])
          [] q = "build_rpath_args" ->
                build_rpath_args(obj, a[1], a[2], a[3], a[4], a[5], a[6]))

\* the same in the current state
EvalOn(obj, q, a) == EvalIn(environ, platform, heap, obj, q, a)

Eval(q, a) == EvalOn(self, q, a)

---------------------------------------------------------------------------
(* The calls: one action per method *)

NoResult == [query |-> "none", args |-> <<>>, outcome |-> None]

\* what a call that only reads leaves in `result`
Returned(q, a) == [query |-> q, args |-> a, outcome |-> Eval(q, a)]

\* what such a call leaves alone
readonly == <<environ, platform, self, heap, held>>

\* faulty variant: os.environ.pop('LDFLAGS', None), which takes the variable away
Call_get_linker_args_from_envvars_pop ==
    \E a \in Inputs("get_linker_args_from_envvars") :
        /\ result' = Returned("get_linker_args_from_envvars", a)
        /\ environ' = [k \in (DOMAIN environ) \ {"LDFLAGS"} |-> environ[k]]
        /\ UNCHANGED <<platform, self, heap, held>>

Call_get_linker_args_from_envvars ==
    \E a \in Inputs("get_linker_args_from_envvars") :
        /\ result' = Returned("get_linker_args_from_envvars", a)
        /\ UNCHANGED readonly

Call_sanitizer_link_args ==
    \E a \in Inputs("sanitizer_link_args") :
        /\ result' = Returned("sanitizer_link_args", a)
        /\ UNCHANGED readonly

Call_get_lto_link_args ==
    \E a \in Inputs("get_lto_link_args") :
        /\ result' = Returned("get_lto_link_args", a)
        /\ UNCHANGED readonly

Call_can_linker_accept_rsp ==
    \E a \in Inputs("can_linker_accept_rsp") :
        /\ result' = Returned("can_linker_accept_rsp", a)
        /\ UNCHANGED readonly

\* the returned list is a new object on the heap, which the caller holds
Call_get_linker_exelist ==
    /\ Cardinality(held) < MaxCopies
    /\ LET r == get_linker_exelist(self, heap)
       IN  /\ heap' = r.heap
           /\ held' = held \cup {r.ref}
           /\ result' = [query |-> "get_linker_exelist", args |-> <<>>,
                         outcome |-> [kind |-> "list", val |-> r.heap[r.ref],
                                      ref |-> r.ref]]
    /\ UNCHANGED <<environ, platform, self>>

Call_get_linker_output_args ==
    \E a \in Inputs("get_linker_output_args") :
        /\ result' = Returned("get_linker_output_args", a)
        /\ UNCHANGED readonly

Call_get_linker_always_args ==
    \E a \in Inputs("get_linker_always_args") :
        /\ result' = Returned("get_linker_always_args", a)
        /\ UNCHANGED readonly

Call_get_linker_lib_prefix ==
    \E a \in Inputs("get_linker_lib_prefix") :
        /\ result' = Returned("get_linker_lib_prefix", a)
        /\ UNCHANGED readonly

Call_get_option_link_args ==
    \E a \in Inputs("get_option_link_args") :
        /\ result' = Returned("get_option_link_args", a)
        /\ UNCHANGED readonly

Call_has_multi_link_args ==
    \E a \in Inputs("has_multi_link_args") :
        /\ result' = Returned("has_multi_link_args", a)
        /\ UNCHANGED readonly

Call_get_link_debugfile_args ==
    \E a \in Inputs("get_link_debugfile_args") :
        /\ result' = Returned("get_link_debugfile_args", a)
        /\ UNCHANGED readonly

Call_get_std_shared_lib_link_args ==
    \E a \in Inputs("get_std_shared_lib_link_args") :
        /\ result' = Returned("get_std_shared_lib_link_args", a)
        /\ UNCHANGED readonly

Call_get_std_shared_module_args ==
    \E a \in Inputs("get_std_shared_module_args") :
        /\ result' = Returned("get_std_shared_module_args", a)
        /\ UNCHANGED readonly

Call_get_link_whole_for ==
    \E a \in Inputs("get_link_whole_for") :
        /\ result' = Returned("get_link_whole_for", a)
        /\ UNCHANGED readonly

Call_get_allow_undefined_args ==
    \E a \in Inputs("get_allow_undefined_args") :
        /\ result' = Returned("get_allow_undefined_args", a)
        /\ UNCHANGED readonly

Call_get_pie_link_args ==
    \E a \in Inputs("get_pie_link_args") :
        /\ result' = Returned("get_pie_link_args", a)
        /\ UNCHANGED readonly

Call_get_undefined_link_args ==
    \E a \in Inputs("get_undefined_link_args") :
        /\ result' = Returned("get_undefined_link_args", a)
        /\ UNCHANGED readonly

Call_get_coverage_link_args ==
    \E a \in Inputs("get_coverage_link_args") :
        /\ result' = Returned("get_coverage_link_args", a)
        /\ UNCHANGED readonly

Call_no_undefined_link_args ==
    \E a \in Inputs("no_undefined_link_args") :
        /\ result' = Returned("no_undefined_link_args", a)
        /\ UNCHANGED readonly

Call_bitcode_args ==
    \E a \in Inputs("bitcode_args") :
        /\ result' = Returned("bitcode_args", a)
        /\ UNCHANGED readonly

Call_get_soname_args ==
    \E a \in Inputs("get_soname_args") :
        /\ result' = Returned("get_soname_args", a)
        /\ UNCHANGED readonly

Call_build_rpath_args ==
    \E a \in Inputs("build_rpath_args") :
        /\ result' = Returned("build_rpath_args", a)
        /\ UNCHANGED readonly

---------------------------------------------------------------------------
(* What a caller does with a list it got back from get_linker_exelist *)

CallerItems == {"-v"}

\* the heap without the lists nothing refers to any more
Collect(hp, refs) == [a \in (DOMAIN hp) \cap (refs \cup {self.exelist}) |-> hp[a]]

\* lst.append(x)
CallerAppend ==
    \E ref \in held, x \in CallerItems :
        /\ Len(heap[ref]) < MaxListLen
        /\ heap' = [heap EXCEPT ![ref] = Append(@, x)]
        /\ UNCHANGED <<environ, platform, self, held, result>>

\* del lst[i]
CallerRemove ==
    \E ref \in held :
        \E i \in DOMAIN heap[ref] :
            /\ heap' = [heap EXCEPT ![ref] =
                            SubSeq(@, 1, i - 1) \o SubSeq(@, i + 1, Len(@))]
            /\ UNCHANGED <<environ, platform, self, held, result>>

\* lst.reverse()
CallerReverse ==
    \E ref \in held :
        /\ heap' = [heap EXCEPT ![ref] = [i \in DOMAIN @ |-> @[Len(@) + 1 - i]]]
        /\ UNCHANGED <<environ, platform, self, held, result>>

\* the caller lets go of the list
CallerDrop ==
    \E ref \in held :
        /\ held' = held \ {ref}
        /\ heap' = Collect(heap, held')
        /\ UNCHANGED <<environ, platform, self, result>>

---------------------------------------------------------------------------
(* Construction, and the specifications *)

Ids == {"dmd", "ldc"}
Exelists == {<<"dmd">>, <<"ldc2", "-v">>, <<"ccache", "gdc">>}

\* the LDFLAGS value of the documentation's example
ExampleFlags ==
    <<"-", "L", "/", "o", "p", "t", "/", "l", "i", "b", " ", "\"", "-", "W", "l", ",",
      "-", "r", "p", "a", "t", "h", ",", "/", "o", "p", "t", "/", "l", "i", "b", "\"">>

Alphabet == {"a", " ", "\t", "\"", "'", "\\"}
FlagStrings == UNION {[1..n -> Alphabet] : n \in 0..MaxLen}

Setenv(value) == [k \in {"LDFLAGS"} |-> Str(value)]
Unset == [k \in {} |-> None]

Constructed(ids, exelists, overrides) ==
    /\ platform \in Platforms
    /\ \E id \in ids, ov \in overrides :
           self = [id |-> id, exelist |-> 1, overrides |-> ov]
    /\ \E exe \in exelists : heap = (1 :> exe)
    /\ held = {}
    /\ result = NoResult

\* any adapter over the mixins, a few settings of LDFLAGS
Init ==
    /\ environ \in {Unset} \cup {Setenv(v) : v \in {<<" ">>, <<"a", " ", "'", "b", " ", "c", "'">>, <<"'", "a">>}}
    /\ Constructed(Ids, {<<"ldc2", "-v">>}, SUBSET Overridable)

Next ==
    \/ Call_get_linker_args_from_envvars
    \/ Call_sanitizer_link_args
    \/ Call_get_lto_link_args
    \/ Call_can_linker_accept_rsp
    \/ Call_get_linker_exelist
    \/ Call_get_linker_output_args
    \/ Call_get_linker_always_args
    \/ Call_get_linker_lib_prefix
    \/ Call_get_option_link_args
    \/ Call_has_multi_link_args
    \/ Call_get_link_debugfile_args
    \/ Call_get_std_shared_lib_link_args
    \/ Call_get_std_shared_module_args
    \/ Call_get_link_whole_for
    \/ Call_get_allow_undefined_args
    \/ Call_get_pie_link_args
    \/ Call_get_undefined_link_args
    \/ Call_get_coverage_link_args
    \/ Call_no_undefined_link_args
    \/ Call_bitcode_args
    \/ Call_get_soname_args
    \/ Call_build_rpath_args
    \/ CallerDrop

Spec == Init /\ [][Next]_vars

\* the environment reader alone, over every LDFLAGS value of the bounded alphabet
InitEnv ==
    /\ environ \in {Unset, Setenv(ExampleFlags)} \cup {Setenv(v) : v \in FlagStrings}
    /\ Constructed({"dmd"}, {<<"dmd">>}, {{}})

NextEnv == Call_get_linker_args_from_envvars

SpecEnv == InitEnv /\ [][NextEnv]_vars

\* the baseline table's executable list and the callers that change what they got
InitExe ==
    /\ environ = Unset
    /\ Constructed(Ids, Exelists, {{}})

NextExe ==
    \/ Call_get_linker_exelist
    \/ CallerAppend
    \/ CallerRemove
    \/ CallerReverse
    \/ CallerDrop

SpecExe == InitExe /\ [][NextExe]_vars

---------------------------------------------------------------------------
(* Reference: the fields POSIX shell word splitting gives for a string     *)
(* without expansions.  A backslash outside quotes keeps the next          *)
(* character; in single quotes every character is kept; in double quotes a *)
(* backslash keeps a following double quote or backslash and is otherwise  *)
(* kept itself; unquoted blanks end a field; a field exists as soon as it  *)
(* has a character or a quote.  ok is FALSE when a quote is left open or a *)
(* backslash has nothing after it.                                         *)

RECURSIVE sh_fields(_, _, _, _, _, _)
sh_fields(s, i, mode, cur, open, acc) ==
    IF i > Len(s) THEN
        [ok |-> mode = "plain", fields |-> IF open THEN Append(acc, cur) ELSE acc]
    ELSE IF mode = "plain" THEN
        IF s[i] = "\\" THEN
            IF i = Len(s) THEN [ok |-> FALSE, fields |-> acc]
            ELSE sh_fields(s, i + 2, mode, Append(cur, s[i + 1]), TRUE, acc)
        ELSE IF s[i] = "'" THEN sh_fields(s, i + 1, "single", cur, TRUE, acc)
        ELSE IF s[i] = "\"" THEN sh_fields(s, i + 1, "double", cur, TRUE, acc)
        ELSE IF s[i] \in {" ", "\t", "\n"} THEN
            sh_fields(s, i + 1, mode, <<>>, FALSE, IF open THEN Append(acc, cur) ELSE acc)
        ELSE sh_fields(s, i + 1, mode, Append(cur, s[i]), TRUE, acc)
    ELSE IF mode = "single" THEN
        IF s[i] = "'" THEN sh_fields(s, i + 1, "plain", cur, open, acc)
        ELSE sh_fields(s, i + 1, mode, Append(cur, s[i]), open, acc)
    ELSE
        IF s[i] = "\"" THEN sh_fields(s, i + 1, "plain", cur, open, acc)
        ELSE IF s[i] = "\\" /\ i < Len(s) /\ s[i + 1] \in {"\"", "\\"} THEN
            sh_fields(s, i + 2, mode, Append(cur, s[i + 1]), open, acc)
        ELSE sh_fields(s, i + 1, mode, Append(cur, s[i]), open, acc)

ShellFields(s) == sh_fields(s, 1, "plain", <<>>, FALSE, <<>>)

---------------------------------------------------------------------------
(* Properties *)

Range(f) == {f[i] : i \in DOMAIN f}

\* the object is the unmodified baseline table: no adapter defines a query
Baseline == self.overrides = {}

\* an outcome without the address of the list it is
Value(o) == IF o.kind = "list" THEN List(o.val) ELSE o

Called(q) == result.query = q

EnvCalled == Called("get_linker_args_from_envvars")

LDFLAGS == os_environ_get(environ, "LDFLAGS")

HardFailureQueries ==
    {"get_link_whole_for", "get_allow_undefined_args", "get_pie_link_args",
     "get_coverage_link_args", "bitcode_args", "get_soname_args"}

InertQueries ==
    {"sanitizer_link_args", "get_lto_link_args", "get_linker_output_args",
     "get_linker_always_args", "get_option_link_args", "get_link_debugfile_args",
     "get_std_shared_lib_link_args", "get_std_shared_module_args",
     "get_undefined_link_args", "no_undefined_link_args", "build_rpath_args"}

\* the words that name the feature a hard-failure query is about
FeatureWords(q) ==
    CASE q = "get_link_whole_for" -> {"link_whole"}
      [] q = "get_allow_undefined_args" -> {"allow", "undefined"}
      [] q = "get_pie_link_args" -> {"position-independent", "executable"}
      [] q = "get_coverage_link_args" -> {"coverage"}
      [] q = "bitcode_args" -> {"bitcode"}
      [] q = "get_soname_args" -> {"soname"}

\* Python's own exceptions, which meson reports as an unexpected crash
BuiltinExceptions == {"ValueError", "KeyError"}

\* the error classes the hard-failure queries raise
CapabilityErrors ==
    UNION {{EvalOn([self EXCEPT !.overrides = {}], q, a).cls : a \in Inputs(q)} :
               q \in HardFailureQueries}

(* C1: on the baseline table each of the six hard-failure queries raises,  *)
(* all six raise one error class (that of the first, get_link_whole_for),  *)
(* and the error's message holds the id of the object and the name of the  *)
(* feature.                                                                *)
C1_HardFailuresCarryIdentity ==
    (Baseline /\ result.query \in HardFailureQueries) =>
        /\ result.outcome.kind = "raise"
        /\ result.outcome.cls = Eval("get_link_whole_for", <<<<>>>>).cls
        /\ self.id \in Range(result.outcome.msg)
        /\ FeatureWords(result.query) \subseteq Range(result.outcome.msg)

(* C2: on the baseline table every inert-default query returns an empty    *)
(* list, for every input: never None, never an error.                      *)
C2_InertDefaultsReturnEmptyList ==
    (Baseline /\ result.query \in InertQueries) => result.outcome = List(<<>>)

C2_Witness ==
    /\ Baseline
    /\ Called("build_rpath_args")
    /\ result.args[4] = "/opt/lib"
    /\ result.args[5] = "$ORIGIN"

(* C3: when LDFLAGS fails shell-word parsing, get_linker_args_from_envvars *)
(* raises an error of the configuration kind: not one of Python's own      *)
(* exceptions (a crash), not the class of a capability error, and no list. *)
C3_MalformedFlagsAreConfigurationError ==
    (EnvCalled /\ Truthy(LDFLAGS) /\ ~ShellFields(LDFLAGS.val).ok) =>
        /\ result.outcome.kind = "raise"
        /\ result.outcome.cls \notin BuiltinExceptions
        /\ result.outcome.cls \notin CapabilityErrors

(* C4: get_linker_args_from_envvars returns an empty list, and no error,   *)
(* when LDFLAGS is unset, is the empty string, or holds only whitespace.   *)
C4_BlankFlagsGiveEmptyList ==
    (EnvCalled /\ (LDFLAGS = None \/ Range(LDFLAGS.val) \subseteq whitespace)) =>
        result.outcome = List(<<>>)

C4_Witness ==
    /\ EnvCalled
    /\ LDFLAGS # None
    /\ Len(LDFLAGS.val) >= 2
    /\ Range(LDFLAGS.val) = {" ", "\t"}
    /\ result.outcome = List(<<>>)

C6_OutcomesIndependentOfHistory ==
    [][/\ \A q \in Queries : \A a \in Inputs(q) :
              EvalIn(environ', platform', heap', self', q, a) = Eval(q, a)
       /\ self' = self
       /\ heap'[self'.exelist] = heap[self.exelist]
       /\ environ' = environ
       /\ platform' = platform]_vars

C6_Witness ==
    /\ Cardinality(held) = 2
    /\ EnvCalled
    /\ result.outcome.kind = "raise"

(* C7: get_linker_exelist returns a list equal to the object's exelist,    *)
(* and a new one: no list a caller holds is the object's exelist, so       *)
(* whatever callers do to the lists they hold, the exelist still equals    *)
(* what the last call returned.                                            *)
C7_ExelistIsFreshCopy ==
    /\ self.exelist \notin held
    /\ Called("get_linker_exelist") =>
           /\ result.outcome.val = heap[self.exelist]
           /\ result.outcome.ref # self.exelist

C7_Witness ==
    /\ Called("get_linker_exelist")
    /\ result.outcome.ref \in held
    /\ \E other \in held \ {result.outcome.ref} : heap[other] # heap[self.exelist]

(* C8: can_linker_accept_rsp returns true exactly when the host platform   *)
(* is Windows, whatever the object's id, exelist and adapter.              *)
C8_RspIffWindows ==
    Called("can_linker_accept_rsp") => result.outcome = Bool(is_windows(platform))

C8_Witness ==
    /\ Called("can_linker_accept_rsp")
    /\ platform = "windows"
    /\ result.outcome = Bool(TRUE)

(* C9: on the baseline table has_multi_link_args returns (False, False)    *)
(* for every argument list, the empty one included.                        *)
C9_MultiLinkArgsAlwaysFalse ==
    (Baseline /\ Called("has_multi_link_args")) =>
        result.outcome = Tuple(<<FALSE, FALSE>>)

C9_Witness ==
    /\ Baseline
    /\ Called("has_multi_link_args")
    /\ result.args[1] = <<>>

(* C10 as stated: a query the adapter does not define itself returns what  *)
(* it returns on the unmodified baseline table.                            *)
C10_OverrideLeavesOthersAtBaseline ==
    (result.query \in Queries \ self.overrides) =>
        Value(result.outcome) =
            EvalOn([self EXCEPT !.overrides = {}], result.query, result.args)

(* C10 amended: that holds of every query but get_std_shared_module_args,  *)
(* which returns what the object's get_std_shared_lib_link_args returns:   *)
(* the adapter's list when the adapter defines that query, else the empty  *)
(* list.                                                                   *)
C10_ModuleArgsFollowSharedLibArgs ==
    /\ (result.query \in Queries \ (self.overrides \cup {"get_std_shared_module_args"})) =>
           Value(result.outcome) =
               EvalOn([self EXCEPT !.overrides = {}], result.query, result.args)
    /\ Called("get_std_shared_module_args") =>
           result.outcome =
               IF "get_std_shared_lib_link_args" \in self.overrides
               THEN adapter_args("get_std_shared_lib_link_args")
               ELSE List(<<>>)

C10_Witness ==
    /\ self.overrides = {"get_std_shared_lib_link_args"}
    /\ Called("get_std_shared_module_args")
    /\ result.outcome.val # <<>>

=============================================================================
